---- MODULE Spec2Model ----
(***************************************************************************)
(* nyx: throughput sampling for iterators, readers and writers.            *)
(*                                                                         *)
(* The module models src/src/lib.rs: the thread-local update interval      *)
(* (INTERVAL / get / set), the sampler bytes_per_second, and the three     *)
(* adapters (iter::slot's map closure, read::Reader, write::Writer) with   *)
(* their slot and send sinks.                                              *)
(*                                                                         *)
(* Time is a monotonic clock counted in ticks; TicksPerSec ticks make one  *)
(* second.  The accumulator's type u64 is modelled at a reduced width      *)
(* (U64Max stands for u64::MAX) so that sums beyond it stay representable; *)
(* usize has the same range (64-bit target).                               *)
(***************************************************************************)
EXTENDS Integers, Sequences, FiniteSets, TLC

\* ---------------------------------------------------------------- bounds
MaxTime == 2          \* the clock stops advancing here
MaxOps  == 2          \* calls made on the wrapper
MaxSkew == 1          \* ticks that may pass between the two clock reads

\* ------------------------------------------------------------- constants
TicksPerSec == 2
U64Max      == 65535
UsizeMax    == U64Max

Threads   == {1, 2}
Durations == {0, 1}                         \* arguments given to set()
Counts    == {0, 8}                         \* counts a well-behaved stream returns
ItemSizes == {0, 8}                         \* mem::size_of_val of the item type
Items     == {10, 11}                       \* item values
ErrKinds  == {"Interrupted", "Other"}       \* io::ErrorKind of a failure
Kinds     == {"iter", "read", "write"}
Sinks     == {"slot", "send"}
NotSet    == <<>>                           \* no set() call yet

VARIABLES
    now,        \* the monotonic clock (Instant::now())
    INTERVAL,   \* thread_local INTERVAL, one cell per thread
    lastSet,    \* history: the argument of each thread's latest set(), or NotSet
    kind,       \* which adapter wraps the stream
    sink,       \* which callback the adapter was built with
    itemSize,   \* size_of the iterator's item type
    env,        \* what the surroundings may do: [huge, panics, debug]
    horizon,    \* the clock value at which the run is cut off
    dropped,    \* the wrapper has been dropped
    bytes,      \* the wrapper's accumulator  (bytes: u64)
    instant,    \* the wrapper's window start (instant: Instant)
    rxAlive,    \* the Receiver of the send sink still exists
    chan,       \* number of rates queued in the channel
    called,     \* history: number of callback invocations
    fed,        \* history: exact sum of the counts recorded since the last report
    unreported, \* history: all counts recorded minus all totals reported so far
    reportAt,   \* history: clock value stored by the latest report (or creation)
    under,      \* history: number of answers the underlying stream gave
    out,        \* history: number of answers the wrapper handed to its caller
    step,       \* history: the call that has just returned; blank again once
                \* the clock, a window or the channel has changed
    fmtIn,      \* the Bps value handed to Display, as base-1024 digits
    fmtOut      \* what Display wrote for it

vars == <<now, INTERVAL, lastSet, kind, sink, itemSize, env, horizon, dropped,
          bytes, instant, rxAlive, chan, called, fed, unreported, reportAt,
          under, out, step, fmtIn, fmtOut>>

\* ---------------------------------------------------------------- values
Ok(n)   == [tag |-> "Ok",   n |-> n, e |-> "none"]
Err(k)  == [tag |-> "Err",  n |-> 0, e |-> k]
Some(v) == [tag |-> "Some", n |-> v, e |-> "none"]
None    == [tag |-> "None", n |-> 0, e |-> "none"]
Unwind  == [tag |-> "Unwind", n |-> 0, e |-> "none"]

\* Duration::from_secs(1), the initial value of every thread's INTERVAL
DefaultInterval == 1 * TicksPerSec

\* variant: the window of the thread that built the wrapper (thread 1) is
\* used whichever thread drives it
get_Creator(t) == INTERVAL[1]

\* INTERVAL.with(Cell::get)
get(t) == INTERVAL[t]

\* variant: one cell shared by all threads (a plain static)
set_Shared(t, interval) == [u \in Threads |-> interval]

\* INTERVAL.with(move |c| c.set(interval))
set(t, interval) == [INTERVAL EXCEPT ![t] = interval]

\* ---------------------------------------------------------- the formatter
\* A u64 is written in base 1024: Limbs(d0, .., d6) is the sum of
\* d_i * 1024^i, with d0 .. d5 in 0 .. 1023 and d6 in 0 .. 15.
Limbs(d0, d1, d2, d3, d4, d5, d6) == <<d0, d1, d2, d3, d4, d5, d6>>

RECURSIVE Pow2(_)
Pow2(k) == IF k = 0 THEN 1 ELSE 2 * Pow2(k - 1)

\* a <= b on u64 values
LimbsLeq(a, b) ==
    \/ a = b
    \/ \E i \in 1 .. 7 : a[i] < b[i] /\ \A j \in (i + 1) .. 7 : a[j] = b[j]

\* the lower ends of the five match arms of Display::fmt:
\* 0, 1024, 1_048_576, 1_073_741_824, 1_099_511_627_776
ArmLo(k) ==
    CASE k = 0 -> Limbs(0, 0, 0, 0, 0, 0, 0)
      [] k = 1 -> Limbs(0, 1, 0, 0, 0, 0, 0)
      [] k = 2 -> Limbs(0, 0, 1, 0, 0, 0, 0)
      [] k = 3 -> Limbs(0, 0, 0, 1, 0, 0, 0)
      [] k = 4 -> Limbs(0, 0, 0, 0, 1, 0, 0)

\* variant: the KiB arm written 1024..=1_048_576
ArmHi_OffByOne(k) ==
    CASE k = 0 -> Limbs(1023, 0, 0, 0, 0, 0, 0)
      [] k = 1 -> Limbs(0, 0, 1, 0, 0, 0, 0)
      [] k = 2 -> Limbs(1023, 1023, 1023, 0, 0, 0, 0)
      [] k = 3 -> Limbs(1023, 1023, 1023, 1023, 0, 0, 0)
      [] k = 4 -> Limbs(1023, 1023, 1023, 1023, 1023, 1023, 15)

\* the upper ends (inclusive) of the five match arms: 1023, 1_048_575,
\* 1_073_741_823, 1_099_511_627_775, 18_446_744_073_709_551_615
ArmHi(k) ==
    CASE k = 0 -> Limbs(1023, 0, 0, 0, 0, 0, 0)
      [] k = 1 -> Limbs(1023, 1023, 0, 0, 0, 0, 0)
      [] k = 2 -> Limbs(1023, 1023, 1023, 0, 0, 0, 0)
      [] k = 3 -> Limbs(1023, 1023, 1023, 1023, 0, 0, 0)
      [] k = 4 -> Limbs(1023, 1023, 1023, 1023, 1023, 1023, 15)

\* the unit each arm writes
ArmUnit(k) ==
    CASE k = 0 -> "B/s" [] k = 1 -> "KiB/s" [] k = 2 -> "MiB/s"
      [] k = 3 -> "GiB/s" [] k = 4 -> "TiB/s"

\* the range pattern of arm k matches n
InArm(n, k) == LimbsLeq(ArmLo(k), n) /\ LimbsLeq(n, ArmHi(k))

\* the set of arms whose pattern matches n; match takes the first of them
Matching(n) == {k \in 0 .. 4 : InArm(n, k)}
FirstArm(n) == CHOOSE k \in Matching(n) : \A j \in Matching(n) : k <= j

\* number of bits of a digit
RECURSIVE BitLen(_)
BitLen(d) == IF d = 0 THEN 0 ELSE 1 + BitLen(d \div 2)

\* adds c * 1024^(i-1) to v, carrying upward; the top digit may reach 16
\* (the value 2^64, which f64 holds)
RECURSIVE AddAt(_, _, _)
AddAt(v, i, c) ==
    IF c = 0 THEN v
    ELSE IF i = 7 THEN [v EXCEPT ![7] = v[7] + c]
    ELSE LET t == v[i] + c
         IN  AddAt([v EXCEPT ![i] = t % 1024], i + 1, t \div 1024)

\* self.0 as f64: exact below 2^53, otherwise rounded to 53 significant bits,
\* ties to even.  At most 11 low bits are dropped: digit 0 and bit 0 of
\* digit 1.
AsF64(n) ==
    LET h    == IF n[7] # 0 THEN 7 ELSE IF n[6] # 0 THEN 6 ELSE 0
        top  == IF h = 0 THEN 0 ELSE 10 * (h - 1) + BitLen(n[h]) - 1
        drop == IF top > 52 THEN top - 52 ELSE 0
    IN  IF drop = 0 THEN n
        ELSE LET low12 == n[1] + 1024 * (n[2] % 2)
                 low   == low12 % Pow2(drop)
                 half  == Pow2(drop - 1)
                 unit  == ((n[1] + 1024 * (n[2] % 4)) \div Pow2(drop)) % 2
                 up    == low > half \/ (low = half /\ unit = 1)
                 cut   == IF drop <= 10
                          THEN [n EXCEPT ![1] = n[1] - (n[1] % Pow2(drop))]
                          ELSE [n EXCEPT ![1] = 0, ![2] = n[2] - (n[2] % 2)]
             IN  IF ~up THEN cut
                 ELSE IF drop < 10 THEN AddAt(cut, 1, Pow2(drop))
                 ELSE AddAt(cut, 2, Pow2(drop - 10))

\* 100 * (the part of v below 1024^k) / 1024^k, by long multiplication from
\* the lowest digit: c is the integer part so far, top the highest digit of
\* the remainder, low whether a lower digit of the remainder is non-zero
RECURSIVE Hundredths(_, _, _, _)
Hundredths(v, i, k, acc) ==
    IF i > k THEN acc
    ELSE LET t == 100 * v[i] + acc.c
         IN  Hundredths(v, i + 1, k,
                        [c   |-> t \div 1024,
                         top |-> t % 1024,
                         low |-> acc.low \/ acc.top # 0])

\* write!(f, "{:.2} <unit>", n / 1024^k): the quotient with two fractional
\* digits, rounded half to even
Render(v, k) ==
    LET whole == v[k + 1] + (IF k = 4 THEN 1024 * v[6] + 1048576 * v[7] ELSE 0)
        h     == Hundredths(v, 1, k, [c |-> 0, top |-> 0, low |-> FALSE])
        up    == \/ h.top > 512
                 \/ h.top = 512 /\ h.low
                 \/ h.top = 512 /\ ~h.low /\ h.c % 2 = 1
        cents == 100 * whole + h.c + (IF up THEN 1 ELSE 0)
    IN  [int |-> cents \div 100, frac |-> cents % 100, unit |-> ArmUnit(k)]

\* nothing written (yet)
NoOutput == [int |-> 0, frac |-> 0, unit |-> "none"]

\* <Bps as Display>::fmt
Bps_fmt(n) ==
    IF Matching(n) = {} THEN NoOutput
    ELSE Render(AsF64(n), FirstArm(n))

\* ------------------------------------------------------------ the sampler
\* variant: the elapsed time is taken in whole seconds (as_secs for
\* as_secs_f64)
Rate_WholeSecs(sum, elapsed) ==
    IF elapsed \div TicksPerSec = 0
    THEN IF sum = 0 THEN 0 ELSE U64Max
    ELSE sum \div (elapsed \div TicksPerSec)

\* (*sum as f64 / elapsed.as_secs_f64()) as u64: the quotient truncated toward
\* zero; a float-to-int cast saturates, so x/0 = inf gives u64::MAX and
\* 0/0 = NaN gives 0.
Rate(sum, elapsed) ==
    IF elapsed = 0
    THEN IF sum = 0 THEN 0 ELSE U64Max
    ELSE LET a == sum \div elapsed
             r == ((sum % elapsed) * TicksPerSec) \div elapsed
         IN  IF a > (U64Max - r) \div TicksPerSec THEN U64Max
             ELSE a * TicksPerSec + r

\* variant: the count replaces the accumulator (`=` for `+=`)
WrappingAdd_Assign(sum, new) == new

\* *sum += new as u64: overflow panics when overflow checks are compiled in
\* (debug) and wraps otherwise (release).
Overflows(sum, new) == sum > U64Max - new

WrappingAdd(sum, new) ==
    IF Overflows(sum, new) THEN sum - (U64Max - new) - 1 ELSE sum + new

\* variant: strict comparison (`>` for `>=`)
WindowElapsed_Strict(elapsed, window) == elapsed > window

\* the test that closes a window: elapsed >= get()
WindowElapsed(elapsed, window) == elapsed >= window

\* variant: the report leaves *sum alone
bytes_per_second_NoReset(new, sum, inst, t1, t2, window, debug, cb) ==
    LET s       == WrappingAdd(sum, new)
        elapsed == t1 - inst
    IN  IF WindowElapsed(elapsed, window)
        THEN [sum |-> s, instant |-> t2, fires |-> 1, rate |-> Rate(s, elapsed),
              elapsed |-> elapsed, used |-> s, outcome |-> "return"]
        ELSE [sum |-> s, instant |-> inst, fires |-> 0, rate |-> 0,
              elapsed |-> elapsed, used |-> s, outcome |-> "return"]

\* variant: the report leaves *instant alone
bytes_per_second_KeepInstant(new, sum, inst, t1, t2, window, debug, cb) ==
    LET s       == WrappingAdd(sum, new)
        elapsed == t1 - inst
    IN  IF WindowElapsed(elapsed, window)
        THEN [sum |-> 0, instant |-> inst, fires |-> 1, rate |-> Rate(s, elapsed),
              elapsed |-> elapsed, used |-> s, outcome |-> "return"]
        ELSE [sum |-> s, instant |-> inst, fires |-> 0, rate |-> 0,
              elapsed |-> elapsed, used |-> s, outcome |-> "return"]

\* fn bytes_per_second(new, sum, instant, f).  t1 is the clock read by
\* instant.elapsed(), t2 the clock read by Instant::now(), window the value of
\* get() in the calling thread, cb what the call f(..) does ("return" or
\* "panic").  The result holds the new *sum and *instant, whether f was
\* called and with which rate, and how control leaves the function.
bytes_per_second(new, sum, inst, t1, t2, window, debug, cb) ==
    IF debug /\ Overflows(sum, new)
    THEN [sum |-> sum, instant |-> inst, fires |-> 0, rate |-> 0,
          elapsed |-> 0, used |-> sum, outcome |-> "unwind"]
    ELSE LET s       == WrappingAdd(sum, new)
             elapsed == t1 - inst
         IN  IF WindowElapsed(elapsed, window)
             THEN [sum     |-> IF cb = "panic" THEN s ELSE 0,
                   instant |-> t2,
                   fires   |-> 1,
                   rate    |-> Rate(s, elapsed),
                   elapsed |-> elapsed,
                   used    |-> s,
                   outcome |-> IF cb = "panic" THEN "unwind" ELSE "return"]
             ELSE [sum |-> s, instant |-> inst, fires |-> 0, rate |-> 0,
                   elapsed |-> elapsed, used |-> s, outcome |-> "return"]

\* ---------------------------------------------------------------- sinks
\* variant: the result of Sender::send is unwrapped
send_closure_Unwrap(bps, alive, ch) ==
    [chan |-> IF alive THEN ch + 1 ELSE ch,
     outcome |-> IF alive THEN "return" ELSE "panic"]

\* the closure of iter::send / read::send / write::send:
\*     move |bps| { let _ = sender.send(bps); }
\* Sender::send fails only when the Receiver is gone; the result is dropped.
send_closure(bps, alive, ch) ==
    [chan |-> IF alive THEN ch + 1 ELSE ch, outcome |-> "return"]

\* what a call of the wrapper's callback can do: a caller-supplied slot
\* returns, or panics where the surroundings allow it.
SlotOutcomes == IF env.panics THEN {"return", "panic"} ELSE {"return"}

\* counts the underlying stream may return from read / write
UnderCounts == IF env.huge THEN Counts \cup {UsizeMax} ELSE Counts

\* -------------------------------------------------------------- adapters
\* variant: a failed call records zero bytes instead of leaving through `?`
Samples_OnErr(op, ures) == op # "flush"

\* variant: flush records zero bytes
Samples_Flush(op, ures) == ures.tag \in {"Ok", "Some"}

\* variant: the end of the sequence is recorded like an item (a final flush)
Samples_AtEnd(op, ures) == op # "flush" /\ ures.tag \in {"Ok", "Some", "None"}

\* variant: a call that moved no bytes is not recorded
Samples_NonEmpty(op, ures) ==
    op # "flush" /\ ures.tag \in {"Ok", "Some"} /\ (ures.tag = "Ok" => ures.n > 0)

\* Does a call of the wrapper reach bytes_per_second?  read, read_vectored,
\* write and write_vectored leave through `?` on Err; Map calls its closure
\* only for Some(item); flush never samples.
Samples(op, ures) == op # "flush" /\ ures.tag \in {"Ok", "Some"}

\* variant: every adapter records mem::size_of_val, as the iterator adapter
\* does
Count_ItemSize(op, ures) == itemSize

\* the first argument of bytes_per_second: mem::size_of_val(&item) for the
\* iterator adapter, the count returned by the underlying call otherwise
Count(op, ures) == IF op = "next" THEN itemSize ELSE ures.n

\* variant: the accumulated total is returned in place of the call's count
Returned_Accumulated(ures, r) ==
    IF r.outcome = "unwind" THEN Unwind
    ELSE IF ures.tag = "Ok" THEN Ok(r.used) ELSE ures

\* what the caller gets: `item` / `Ok(bytes)` / the propagated error, or
\* nothing when the call unwinds
Returned(ures, r) == IF r.outcome = "unwind" THEN Unwind ELSE ures

\* What happens during one call, in the order of the method body: the
\* underlying call (or the pull of the item), then bytes_per_second with
\* the call of the callback inside it, then the return; all of it on the
\* calling thread t.  r is the result of bytes_per_second.
StepEvents(t, sampled, r) ==
    LET e(x) == [ev |-> x, by |-> t]
    IN  <<e("underlying")>>
        \o (IF sampled THEN <<e("record")>> ELSE <<>>)
        \o (IF sampled /\ r.fires = 1 THEN <<e("callback")>> ELSE <<>>)
        \o (IF sampled /\ r.outcome = "unwind" THEN <<e("unwind")>>
            ELSE <<e("return")>>)

BlankStep ==
    [op |-> "none", t |-> 1, ures |-> None, res |-> None, sampled |-> FALSE,
     new |-> 0, fires |-> 0, elapsed |-> 0, window |-> 0, used |-> 0,
     rate |-> 0, bytes0 |-> 0, instant0 |-> 0, t1 |-> 0, t2 |-> 0,
     alive |-> TRUE, due |-> FALSE, dur |-> 0, called0 |-> 0, fed0 |-> 0,
     reportAt0 |-> 0, chan0 |-> 0, set0 |-> [u \in Threads |-> NotSet],
     events |-> <<>>]

\* One call `op` made by thread t on the wrapper, the underlying stream
\* answering ures.
Call(t, op, ures) ==
    /\ ~dropped
    /\ under < MaxOps
    /\ under' = under + 1
    /\ UNCHANGED <<INTERVAL, lastSet, kind, sink, itemSize, env, horizon, dropped,
                   rxAlive, fmtIn, fmtOut>>
    /\ IF Samples(op, ures)
       THEN \E skew \in 0 .. MaxSkew, cbo \in SlotOutcomes :
              LET new == Count(op, ures)
                  snd == send_closure(Rate(WrappingAdd(bytes, new), now - instant),
                                      rxAlive, chan)
                  cb  == IF sink = "send" THEN snd.outcome ELSE cbo
                  r   == bytes_per_second(new, bytes, instant, now, now + skew,
                                          get(t), env.debug, cb)
                  res == Returned(ures, r)
              IN  /\ now + skew <= horizon
                  /\ r.fires = 0 => skew = 0
                  /\ sink = "send" => cbo = "return"
                  /\ bytes'    = r.sum
                  /\ instant'  = r.instant
                  /\ now'      = IF r.fires = 1 THEN now + skew ELSE now
                  /\ called'   = called + r.fires
                  /\ chan'     = IF r.fires = 1 /\ sink = "send" THEN snd.chan ELSE chan
                  /\ fed'      = IF r.fires = 1 THEN 0
                                 ELSE IF r.outcome = "unwind" THEN fed ELSE fed + new
                  /\ unreported' =
                        IF r.fires = 1 THEN unreported + new - r.used
                        ELSE IF r.outcome = "unwind" THEN unreported
                        ELSE unreported + new
                  /\ reportAt' = IF r.fires = 1 THEN now + skew ELSE reportAt
                  /\ out'      = IF res = Unwind THEN out ELSE out + 1
                  /\ step'     = [op |-> op, t |-> t, ures |-> ures, res |-> res,
                                  sampled |-> TRUE, new |-> new, fires |-> r.fires,
                                  elapsed |-> r.elapsed, window |-> INTERVAL[t],
                                  used |-> r.used, rate |-> r.rate,
                                  bytes0 |-> bytes, instant0 |-> instant,
                                  t1 |-> now, t2 |-> now + skew, alive |-> rxAlive,
                                  due |-> now - instant >= INTERVAL[t], dur |-> 0,
                                  called0 |-> called, fed0 |-> fed,
                                  reportAt0 |-> reportAt, chan0 |-> chan,
                                  set0 |-> BlankStep.set0,
                                  events |-> StepEvents(t, TRUE, r)]
       ELSE /\ out'  = out + 1
            /\ step' = [BlankStep EXCEPT !.op = op, !.t = t, !.ures = ures,
                          !.res = ures, !.window = INTERVAL[t],
                          !.bytes0 = bytes, !.instant0 = instant, !.t1 = now,
                          !.t2 = now, !.alive = rxAlive,
                          !.due = now - instant >= INTERVAL[t],
                          !.called0 = called, !.fed0 = fed,
                          !.reportAt0 = reportAt, !.chan0 = chan,
                          !.events = StepEvents(t, FALSE, BlankStep)]
            /\ UNCHANGED <<now, bytes, instant, called, chan, fed, unreported,
                         reportAt>>

\* Map<I, closure of iter::slot>::next
Map_next(t) ==
    /\ kind = "iter"
    /\ \E ures \in {None} \cup {Some(v) : v \in Items} : Call(t, "next", ures)

\* <Reader as Read>::read
Reader_read(t) ==
    /\ kind = "read"
    /\ \E ures \in {Ok(n) : n \in UnderCounts} \cup {Err(k) : k \in ErrKinds} :
          Call(t, "read", ures)

\* <Reader as Read>::read_vectored
Reader_read_vectored(t) ==
    /\ kind = "read"
    /\ \E ures \in {Ok(n) : n \in UnderCounts} \cup {Err(k) : k \in ErrKinds} :
          Call(t, "read_vectored", ures)

\* <Writer as Write>::write
Writer_write(t) ==
    /\ kind = "write"
    /\ \E ures \in {Ok(n) : n \in UnderCounts} \cup {Err(k) : k \in ErrKinds} :
          Call(t, "write", ures)

\* <Writer as Write>::write_vectored
Writer_write_vectored(t) ==
    /\ kind = "write"
    /\ \E ures \in {Ok(n) : n \in UnderCounts} \cup {Err(k) : k \in ErrKinds} :
          Call(t, "write_vectored", ures)

\* <Writer as Write>::flush
Writer_flush(t) ==
    /\ kind = "write"
    /\ \E ures \in {Ok(0)} \cup {Err(k) : k \in ErrKinds} : Call(t, "flush", ures)

\* ------------------------------------------------ configuration and world
\* pub fn set(interval: Duration), called by thread t
Set(t) ==
    \E d \in Durations :
        /\ INTERVAL' = set(t, d)
        /\ lastSet'  = [lastSet EXCEPT ![t] = <<d>>]
        /\ step'     = BlankStep
        /\ UNCHANGED <<now, kind, sink, itemSize, env, horizon, dropped, bytes,
                       instant, rxAlive, chan, called, fed, unreported,
                       reportAt, under, out, fmtIn, fmtOut>>

\* pub fn get() -> Duration, called by thread t
Get(t) ==
    /\ step' = [BlankStep EXCEPT !.op = "get", !.t = t, !.dur = get(t),
                                 !.set0 = lastSet]
    /\ UNCHANGED <<now, INTERVAL, lastSet, kind, sink, itemSize, env, horizon,
                   dropped, bytes, instant, rxAlive, chan, called, fed, unreported,
                   reportAt, under, out, fmtIn, fmtOut>>

\* the monotonic clock advances
Tick ==
    /\ now < horizon
    /\ now' = now + 1
    /\ step' = BlankStep
    /\ UNCHANGED <<INTERVAL, lastSet, kind, sink, itemSize, env, horizon, dropped,
                   bytes, instant, rxAlive, chan, called, fed, unreported,
                   reportAt, under, out, fmtIn, fmtOut>>

\* the Receiver end of the channel is dropped
DropReceiver ==
    /\ sink = "send"
    /\ rxAlive
    /\ rxAlive' = FALSE
    /\ step' = BlankStep
    /\ UNCHANGED <<now, INTERVAL, lastSet, kind, sink, itemSize, env, horizon,
                   dropped, bytes, instant, chan, called, fed, unreported,
                   reportAt, under, out, fmtIn, fmtOut>>

\* the wrapper goes out of scope.  Map, Reader and Writer have no Drop impl:
\* their fields are dropped and nothing else runs.
Drop ==
    /\ ~dropped
    /\ dropped' = TRUE
    /\ step' = [BlankStep EXCEPT !.op = "drop", !.bytes0 = bytes,
                   !.instant0 = instant, !.t1 = now, !.t2 = now,
                   !.alive = rxAlive,
                   !.due = \A t \in Threads : now - instant >= INTERVAL[t],
                   !.called0 = called, !.fed0 = fed, !.reportAt0 = reportAt,
                   !.chan0 = chan]
    /\ UNCHANGED <<now, INTERVAL, lastSet, kind, sink, itemSize, env, horizon,
                   bytes, instant, rxAlive, chan, called, fed, unreported,
                   reportAt, under, out, fmtIn, fmtOut>>

\* ------------------------------------------------------------------ specs
\* State right after iter::slot / read::slot / write::slot (or the send
\* variants) built the wrapper: bytes 0, instant = Instant::now().
InitWith(envs, kinds, h) ==
    /\ now = 0
    /\ horizon = h
    /\ dropped = FALSE
    /\ INTERVAL = [t \in Threads |-> DefaultInterval]
    /\ lastSet = [t \in Threads |-> NotSet]
    /\ kind \in kinds
    /\ sink \in Sinks
    /\ itemSize \in ItemSizes
    /\ kind # "iter" => itemSize = 0
    /\ env \in envs
    /\ bytes = 0
    /\ instant = 0
    /\ rxAlive = TRUE
    /\ chan = 0
    /\ called = 0
    /\ fed = 0
    /\ unreported = 0
    /\ reportAt = 0
    /\ under = 0
    /\ out = 0
    /\ step = BlankStep
    /\ fmtIn = Limbs(0, 0, 0, 0, 0, 0, 0)
    /\ fmtOut = NoOutput

\* surroundings that keep to realistic volumes and callbacks that return
Init == InitWith([huge : {FALSE}, panics : {FALSE}, debug : {FALSE}], Kinds, MaxTime)

Next ==
    \/ \E t \in Threads : Map_next(t)
    \/ \E t \in Threads : Reader_read(t)
    \/ \E t \in Threads : Reader_read_vectored(t)
    \/ \E t \in Threads : Writer_write(t)
    \/ \E t \in Threads : Writer_write_vectored(t)
    \/ \E t \in Threads : Writer_flush(t)
    \/ \E t \in Threads : Set(t)
    \/ Tick
    \/ DropReceiver
    \/ Drop

Spec == Init /\ [][Next]_vars

\* any surroundings: streams that may return counts up to usize::MAX,
\* callbacks that may panic, builds with and without overflow checks
InitHostile ==
    InitWith([huge : {TRUE}, panics : {TRUE}, debug : BOOLEAN], Kinds, MaxTime)

SpecHostile == InitHostile /\ [][Next]_vars

\* Bps values given to Display: every digit at the ends and in the middle of
\* its range, which covers 0, each power of 1024, its predecessor, u64::MAX
FmtDigits == {0, 1, 512, 1023}
FmtInputs ==
    {Limbs(d0, d1, d2, d3, d4, d5, d6) :
        d0 \in FmtDigits, d1 \in FmtDigits, d2 \in FmtDigits, d3 \in FmtDigits,
        d4 \in FmtDigits, d5 \in FmtDigits, d6 \in {0, 1, 15}}

\* bps.to_string() / println!("{}", bps)
Display ==
    /\ fmtOut = NoOutput
    /\ fmtOut' = Bps_fmt(fmtIn)
    /\ UNCHANGED <<now, INTERVAL, lastSet, kind, sink, itemSize, env, horizon,
                   dropped, bytes, instant, rxAlive, chan, called, fed, unreported,
                   reportAt, under, out, step, fmtIn>>

InitFmt ==
    /\ now = 0 /\ horizon = 0 /\ dropped = FALSE
    /\ INTERVAL = [t \in Threads |-> DefaultInterval]
    /\ lastSet = [t \in Threads |-> NotSet]
    /\ kind = "iter" /\ sink = "slot" /\ itemSize = 8
    /\ env = [huge |-> FALSE, panics |-> FALSE, debug |-> FALSE]
    /\ bytes = 0 /\ instant = 0 /\ rxAlive = TRUE /\ chan = 0 /\ called = 0
    /\ fed = 0 /\ unreported = 0 /\ reportAt = 0 /\ under = 0 /\ out = 0
    /\ step = BlankStep
    /\ fmtIn \in FmtInputs
    /\ fmtOut = NoOutput

SpecFmt == InitFmt /\ [][Display]_vars

\* a wrapped sequence pulled until it is exhausted or dropped, watched for
\* longer than the default interval
InitDrain ==
    InitWith([huge : {FALSE}, panics : {FALSE}, debug : {FALSE}], {"iter"},
             DefaultInterval + MaxSkew)

NextDrain ==
    \/ \E t \in Threads : Map_next(t)
    \/ \E t \in Threads : Set(t)
    \/ Tick
    \/ DropReceiver
    \/ Drop

SpecDrain == InitDrain /\ [][NextDrain]_vars

\* The threads' use of the configuration alone: any interleaving of get and
\* set calls while time passes.
\* a reader fed with counts up to usize::MAX, so that the quotient can
\* exceed u64::MAX
InitRate ==
    InitWith([huge : {TRUE}, panics : {FALSE}, debug : {FALSE}], {"read"},
             DefaultInterval + MaxSkew)

NextRate ==
    \/ \E t \in Threads : Reader_read(t)
    \/ \E t \in Threads : Reader_read_vectored(t)
    \/ \E t \in Threads : Set(t)
    \/ Tick

SpecRate == InitRate /\ [][NextRate]_vars

NextConfig ==
    \/ \E t \in Threads : Set(t)
    \/ \E t \in Threads : Get(t)
    \/ Tick

SpecConfig == Init /\ [][NextConfig]_vars

TypeOK ==
    /\ now \in 0 .. horizon
    /\ bytes \in 0 .. U64Max
    /\ instant \in 0 .. now
    /\ out <= under

\* ------------------------------------------------------------- properties
RecordOps == {"next", "read", "read_vectored", "write", "write_vectored"}
IoOps     == {"read", "read_vectored", "write", "write_vectored"}

\* the latest operation is a record step: an item pulled, or a read or write
\* that succeeded
IsRecordStep == step.op \in RecordOps /\ step.ures.tag \in {"Ok", "Some"}

\* time between the window start and the clock read of the latest step
StepElapsed == step.t1 - step.instant0

\* C1: every call on the wrapper hands its caller exactly what the underlying
\* stream answered to that call (the same item, the same byte count), and
\* no answer is dropped or added, whatever the window and whether or not
\* the call fired a report.
C1_Transparency ==
    /\ out = under
    /\ step.op \in RecordOps \cup {"flush"} => step.res = step.ures

C1_Witness ==
    /\ step.op \in RecordOps /\ step.fires = 1 /\ step.ures.n > 0
    /\ called = 2 /\ out = 2

\* C2: a record step calls the callback exactly once when the time elapsed
\* since window_start is at least the window configured for the calling
\* thread (equality included); otherwise it calls it zero times and leaves
\* window_start as it was.
C2_TriggerRule ==
    IsRecordStep =>
        IF StepElapsed >= step.window
        THEN called = step.called0 + 1 /\ step.fires = 1
        ELSE called = step.called0 /\ step.fires = 0 /\ instant = step.instant0

C2_Witness ==
    /\ IsRecordStep /\ step.window > 0 /\ StepElapsed = step.window
    /\ called = step.called0 + 1

\* C3: right after a report the accumulator is 0, and a report fires only
\* when at least the configured window has passed since the previous report
\* (or since creation), however many record steps came in between.
C3_ResetAfterReport ==
    (IsRecordStep /\ step.fires = 1) =>
        /\ bytes = 0
        /\ step.t1 - step.reportAt0 >= step.window

C3_Witness ==
    /\ IsRecordStep /\ step.fires = 1 /\ step.called0 = 1
    /\ step.window > 0 /\ step.reportAt0 > 0 /\ bytes = 0

\* C4: the accumulator value a record step works with is the exact sum of
\* the counts recorded since the previous report, this step's count
\* included; without a report the accumulator does not decrease.
C4_ExactAccumulation ==
    IsRecordStep =>
        /\ step.used = step.fed0 + step.new
        /\ step.fires = 0 => (bytes >= step.bytes0 /\ bytes = fed)

C4_Witness ==
    /\ IsRecordStep /\ step.fires = 1
    /\ step.fed0 > 0 /\ step.new > 0 /\ step.used = step.fed0 + step.new

\* C5: a failed read, read_vectored, write or write_vectored returns the
\* underlying error and touches neither the callback nor the accumulator
\* nor window_start, even when the window has already elapsed.
C5_ErrorNoSample ==
    (step.op \in IoOps /\ step.ures.tag = "Err") =>
        /\ step.res = step.ures
        /\ ~step.sampled
        /\ called = step.called0
        /\ bytes = step.bytes0
        /\ instant = step.instant0

C5_Witness ==
    /\ step.op \in IoOps /\ step.ures.tag = "Err" /\ step.res.e = "Interrupted"
    /\ step.due /\ step.window > 0 /\ step.bytes0 > 0

\* C6: get() in a thread returns 1 second while that thread has not called
\* set(), and otherwise the argument of that thread's own latest set();
\* set() calls of other threads never show.
C6_ContextIsolation ==
    /\ \A t \in Threads :
          INTERVAL[t] = IF lastSet[t] = NotSet THEN DefaultInterval ELSE lastSet[t][1]
    /\ step.op = "get" =>
          step.dur = IF step.set0[step.t] = NotSet THEN DefaultInterval
                     ELSE step.set0[step.t][1]

C6_Witness ==
    /\ step.op = "get" /\ step.t = 2 /\ step.dur = DefaultInterval
    /\ step.set0[2] = NotSet /\ step.set0[1] = <<0>>

\* C7: no record step calls the callback when the elapsed time it measured
\* is exactly zero.
C7_NoZeroElapsedReport ==
    ~(IsRecordStep /\ step.fires = 1 /\ StepElapsed = 0)

\* C8 (as stated): a successful read of 0 bytes is recorded, returns 0, fires
\* a report exactly when the window has elapsed, and leaves the accumulator
\* unchanged.
C8_Original ==
    (step.op \in {"read", "read_vectored"} /\ step.ures = Ok(0)) =>
        /\ step.sampled
        /\ step.res = Ok(0)
        /\ (step.fires = 1) <=> (StepElapsed >= step.window)
        /\ bytes = step.bytes0

\* C8 (amended): a successful read of 0 bytes is recorded, returns 0, adds
\* nothing to the accumulator, and fires a report exactly when the window
\* has elapsed; the accumulator is unchanged when no report fires and reset
\* to 0 by the report when one fires.
C8_ZeroRead ==
    (step.op \in {"read", "read_vectored"} /\ step.ures = Ok(0)) =>
        /\ step.sampled
        /\ step.res = Ok(0)
        /\ step.used = step.bytes0
        /\ (step.fires = 1) <=> (StepElapsed >= step.window)
        /\ called = step.called0 + step.fires
        /\ bytes = IF step.fires = 1 THEN 0 ELSE step.bytes0

C8_Witness ==
    /\ step.op \in {"read", "read_vectored"} /\ step.ures = Ok(0)
    /\ step.bytes0 > 0 /\ step.fires = 1 /\ step.window > 0 /\ bytes = 0

\* C9: flush returns the underlying flush result and never calls the
\* callback nor changes the accumulator or window_start, even when the
\* window has already elapsed.
C9_FlushPassThrough ==
    step.op = "flush" =>
        /\ step.res = step.ures
        /\ called = step.called0
        /\ bytes = step.bytes0
        /\ instant = step.instant0

C9_Witness ==
    /\ step.op = "flush" /\ step.ures = Ok(0) /\ step.due
    /\ step.window > 0 /\ step.bytes0 > 0

\* C10: with a send sink whose Receiver is gone when a report fires, the
\* failed delivery is ignored: the call still hands on the underlying
\* answer, nothing is queued, and the accumulator and window_start are reset
\* as for a delivered report.
C10_SendFailureSwallowed ==
    (IsRecordStep /\ sink = "send" /\ ~step.alive /\ StepElapsed >= step.window) =>
        /\ step.fires = 1
        /\ step.res = step.ures
        /\ chan = step.chan0
        /\ bytes = 0
        /\ instant = step.t2

C10_Witness ==
    /\ IsRecordStep /\ sink = "send" /\ ~step.alive /\ step.fires = 1
    /\ step.used > 0 /\ step.chan0 = 1 /\ out = 2

\* no thread has called set(): every window is the default of one second
AllDefault == \A t \in Threads : lastSet[t] = NotSet

\* C11 (as stated): when a sequence wrapped with the 1-second window has been
\* pulled to exhaustion and more than one second has passed since wrapping,
\* the callback has been invoked at least once.
C11_Original ==
    (step.op = "next" /\ step.ures = None /\ AllDefault
        /\ step.t1 > DefaultInterval) => called >= 1

\* C11 (amended): with the 1-second window, once an item has been pulled one
\* second or more after wrapping, the callback has been invoked at least
\* once; time that passes without an item being pulled reports nothing.
C11_DrainReports ==
    (step.op = "next" /\ step.ures.tag = "Some" /\ AllDefault
        /\ step.t1 >= DefaultInterval) => called >= 1

C11_Witness ==
    /\ step.op = "next" /\ step.ures.tag = "Some" /\ AllDefault
    /\ step.t1 >= DefaultInterval /\ step.called0 = 0 /\ called = 1 /\ under = 2

\* C12: the callback is invoked only inside a record step: a call answered
\* None (the sequence is exhausted), a failed call, a flush and the drop of
\* the wrapper never invoke it, whatever is accumulated and however long the
\* window has been over.
C12_NoFinalFlush ==
    [][called' # called =>
          /\ under' = under + 1
          /\ step'.op \in RecordOps
          /\ step'.ures.tag \in {"Ok", "Some"}
          /\ ~dropped']_vars

C12_Witness ==
    /\ step.op = "next" /\ step.ures = None /\ step.due /\ step.window > 0
    /\ bytes > 0 /\ called = step.called0

\* the band of the table of section 4.1 that holds n: the index of the highest
\* non-zero base-1024 digit, the TiB band taking everything from 1024^4 up
TableBand(n) ==
    IF n[7] # 0 \/ n[6] # 0 \/ n[5] # 0 THEN 4
    ELSE IF n[4] # 0 THEN 3
    ELSE IF n[3] # 0 THEN 2
    ELSE IF n[2] # 0 THEN 1
    ELSE 0

\* C13: every u64 value matches exactly one of the five arms, the arm of its
\* band in the table, and is divided by that band's divisor (the number
\* written lies between 1 and 1024 above the first band); 1024^k is written
\* "1.00" with the unit of band k, and u64::MAX is written in TiB/s.
C13_BandCoverage ==
    fmtOut # NoOutput =>
        /\ Cardinality(Matching(fmtIn)) = 1
        /\ fmtOut.unit = ArmUnit(TableBand(fmtIn))
        /\ TableBand(fmtIn) >= 1 => fmtOut.int >= 1
        /\ TableBand(fmtIn) <= 3 => fmtOut.int <= 1024
        /\ \A k \in 0 .. 4 :
              fmtIn = [i \in 1 .. 7 |-> IF i = k + 1 THEN 1 ELSE 0] =>
                  fmtOut = [int |-> 1, frac |-> 0, unit |-> ArmUnit(k)]
        /\ fmtIn = Limbs(1023, 1023, 1023, 1023, 1023, 1023, 15) =>
              fmtOut = [int |-> 16777216, frac |-> 0, unit |-> "TiB/s"]

C13_Witness ==
    /\ fmtIn = Limbs(0, 0, 0, 0, 1, 0, 0)
    /\ fmtOut = [int |-> 1, frac |-> 0, unit |-> "TiB/s"]

\* C14: no record step fails in the addition: it never unwinds before the
\* window test (a panic of `+=` on overflow), and the sum it works with is
\* the true sum of the accumulator and the step's count, not a wrapped one.
C14_SamplerNeverFails ==
    IsRecordStep =>
        /\ step.res = Unwind => step.fires = 1
        /\ step.used = step.bytes0 + step.new

\* C15: a report resets window_start to the very clock value from which its
\* elapsed time was computed, so consecutive windows leave no gap.
C15_ContiguousWindows ==
    (IsRecordStep /\ step.fires = 1) => instant = step.t1

\* C16: whenever a record step gives control back (by returning or by
\* unwinding), the accumulator and window_start are either both reset for
\* the report or both as the step's addition left them.
C16_ResetTogether ==
    IsRecordStep =>
        \/ bytes = 0 /\ instant = step.t2 /\ step.fires = 1
        \/ bytes = step.used /\ instant = step.instant0 /\ step.fires = 0

\* position of the first event named x in the latest step, 0 if there is none
EventAt(x) ==
    IF \E i \in 1 .. Len(step.events) : step.events[i].ev = x
    THEN CHOOSE i \in 1 .. Len(step.events) :
            /\ step.events[i].ev = x
            /\ \A j \in 1 .. (i - 1) : step.events[j].ev # x
    ELSE 0

C19_WindowReadPerStep ==
    [][(under' = under + 1 /\ IsRecordStep') =>
          /\ step'.t1 = now
          /\ (step'.fires = 1) <=> (now - instant >= INTERVAL[step'.t])]_vars

\* thread 2 shortened its window after the wrapper existed and then drove
\* it to a report that neither the default window nor thread 1's allows
C19_Witness ==
    /\ IsRecordStep /\ step.t = 2 /\ step.fires = 1
    /\ under = 2 /\ step.called0 = 0
    /\ lastSet[2] # NotSet /\ lastSet[1] = NotSet
    /\ StepElapsed > 0 /\ StepElapsed < DefaultInterval
    /\ INTERVAL[1] = DefaultInterval

\* C20: bytes are conserved: all the counts recorded since the wrapper was
\* built, minus the accumulated totals used by the reports fired so far, is
\* exactly the current accumulated total, so every recorded count is in one
\* report or still pending, never in two and never in none.
C20_ByteConservation ==
    /\ unreported = bytes
    /\ (IsRecordStep /\ step.fires = 1) =>
          (step.used = step.bytes0 + step.new /\ bytes = 0)
    /\ (IsRecordStep /\ step.fires = 0) => bytes = step.bytes0 + step.new

\* 8 bytes went into a report, 8 more are pending
C20_Witness ==
    /\ IsRecordStep /\ step.fires = 0 /\ step.new = 8
    /\ called = 1 /\ step.called0 = 1
    /\ step.bytes0 = 0 /\ bytes = 8 /\ unreported = 8
====
